---- MODULE Spec2Model ----
(***************************************************************************)
(* A model of bin/scaffold.js, the scaffold command line tool: recipe      *)
(* loading and merging (loadRecipes), the secret provider (getSecret) and  *)
(* the provisioning run (main).                                            *)
(*                                                                         *)
(* Strings are sequences of tokens.  A token is either one of the special  *)
(* characters "/", " " and "." or a run of ordinary characters (a word     *)
(* holding no separator, no whitespace and no dot), so that includes,      *)
(* split, trim and basename act on a string as the JavaScript functions    *)
(* act on its characters.                                                  *)
(*                                                                         *)
(* A parsed YAML value is a record of one shape,                           *)
(*     [t, s, n, l, m]                                                     *)
(* t the kind ("null", "str", "num", "list", "map"), s the string of a     *)
(* "str", n the number of a "num", l the elements of a "list" and m the    *)
(* key -> value function of a "map"; the fields a kind does not use hold   *)
(* a fixed filler.                                                         *)
(***************************************************************************)
EXTENDS Integers, Sequences, FiniteSets, TLC

(***************************************************************************)
(* Values                                                                  *)
(***************************************************************************)
Null == [t |-> "null", s |-> <<>>, n |-> 0, l |-> <<>>, m |-> <<>>]

Str(x) == [t |-> "str", s |-> x, n |-> 0, l |-> <<>>, m |-> <<>>]

Num(x) == [t |-> "num", s |-> <<>>, n |-> x, l |-> <<>>, m |-> <<>>]

List(x) == [t |-> "list", s |-> <<>>, n |-> 0, l |-> x, m |-> <<>>]

Map(f) == [t |-> "map", s |-> <<>>, n |-> 0, l |-> <<>>, m |-> f]

EmptyMap == Map(<<>>)

\* JavaScript truthiness: null/undefined, "" and 0 are falsy, every object
\* (mapping or sequence, empty or not) is truthy.
Truthy(v) ==
  CASE v.t = "null" -> FALSE
    [] v.t = "str" -> v.s # <<>>
    [] v.t = "num" -> v.n # 0
    [] OTHER -> TRUE

\* obj?.key : undefined (Null) when obj is null/undefined or a primitive or
\* has no such own key.
Get(v, k) == IF v.t = "map" /\ k \in DOMAIN v.m THEN v.m[k] ELSE Null

Get2(v, k1, k2) == Get(Get(v, k1), k2)

(***************************************************************************)
(* deepmerge(target, source) as the deepmerge package computes it when it  *)
(* is called without options, which is how loadRecipes calls it: the       *)
(* default arrayMerge concatenates target and source, mergeObject copies   *)
(* the target's keys and then merges or overwrites with the source's.      *)
(***************************************************************************)
isMergeableObject(v) == v.t \in {"map", "list"}

Keys(v) == IF v.t = "map" THEN DOMAIN v.m ELSE {}

RECURSIVE deepmerge(_, _)
mergeObject(target, source) ==
  LET tk == IF isMergeableObject(target) THEN Keys(target) ELSE {}
      sk == Keys(source)
  IN Map([k \in tk \cup sk |->
            IF k \in sk
              THEN IF k \in Keys(target) /\ isMergeableObject(source.m[k])
                     THEN deepmerge(target.m[k], source.m[k])
                     ELSE source.m[k]
              ELSE target.m[k]])

defaultArrayMerge(target, source) == List(target.l \o source.l)

deepmerge(target, source) ==
  LET sourceIsArray == source.t = "list"
      targetIsArray == target.t = "list"
  IN IF sourceIsArray # targetIsArray THEN source
     ELSE IF sourceIsArray THEN defaultArrayMerge(target, source)
     ELSE mergeObject(target, source)

(***************************************************************************)
(* Strings (token sequences) and paths                                     *)
(***************************************************************************)
SLASH == "/"

SPACE == " "

DOT == "."

NL == "\n"

includes(s, c) == \E i \in 1..Len(s) : s[i] = c

\* s.split(sep): the pieces between the separators, all of them.
RECURSIVE split(_, _)
split(s, sep) ==
  IF ~includes(s, sep) THEN <<s>>
  ELSE LET i == CHOOSE j \in 1..Len(s) :
                  s[j] = sep /\ \A k \in 1..(j - 1) : s[k] # sep
       IN <<SubSeq(s, 1, i - 1)>> \o split(SubSeq(s, i + 1, Len(s)), sep)

\* s.split(sep, limit): the first `limit` pieces; the rest is dropped.
splitLimit(s, sep, limit) ==
  LET all == split(s, sep)
  IN SubSeq(all, 1, IF Len(all) < limit THEN Len(all) ELSE limit)

RECURSIVE trimStart(_)
trimStart(s) ==
  IF s # <<>> /\ s[1] \in {SPACE, NL} THEN trimStart(Tail(s)) ELSE s

RECURSIVE trimEnd(_)
trimEnd(s) ==
  IF s # <<>> /\ s[Len(s)] \in {SPACE, NL}
    THEN trimEnd(SubSeq(s, 1, Len(s) - 1)) ELSE s

trim(s) == trimEnd(trimStart(s))

\* The value written as it was entered.
stripNewlines_none(s) == s

\* val.replace(/\n/g, '')
RECURSIVE stripNewlines(_)
stripNewlines(s) ==
  IF s = <<>> THEN <<>>
  ELSE IF s[1] = NL THEN stripNewlines(Tail(s))
  ELSE <<s[1]>> \o stripNewlines(Tail(s))

\* The segments of a path after normalisation: empty and "." segments are
\* dropped, ".." removes the segment before it.
RECURSIVE normSegs(_, _)
normSegs(segs, acc) ==
  IF segs = <<>> THEN acc
  ELSE LET h == Head(segs)
       IN IF h = <<>> \/ h = <<DOT>> THEN normSegs(Tail(segs), acc)
          ELSE IF h = <<DOT, DOT>>
            THEN normSegs(Tail(segs),
                          IF acc = <<>> THEN acc ELSE SubSeq(acc, 1, Len(acc) - 1))
          ELSE normSegs(Tail(segs), Append(acc, h))

RECURSIVE joinSegs(_)
joinSegs(segs) ==
  IF segs = <<>> THEN <<>> ELSE <<SLASH>> \o Head(segs) \o joinSegs(Tail(segs))

\* The absolute path of a list of segments; the root directory is "/".
absPath(segs) == IF segs = <<>> THEN <<SLASH>> ELSE joinSegs(segs)

\* path.resolve(from, to) for an absolute `from`: `to` is taken relative to
\* `from` unless it is itself absolute.
resolve(from, to) ==
  IF to # <<>> /\ to[1] = SLASH
    THEN absPath(normSegs(split(to, SLASH), <<>>))
    ELSE absPath(normSegs(split(from, SLASH) \o split(to, SLASH), <<>>))

\* path.join(dir, name): concatenation with a separator, then normalised.
join(dir, name) == absPath(normSegs(split(dir \o <<SLASH>> \o name, SLASH), <<>>))

\* path.basename of an absolute, normalised path.
basename(p) ==
  LET segs == normSegs(split(p, SLASH), <<>>)
  IN IF segs = <<>> THEN <<>> ELSE segs[Len(segs)]

(***************************************************************************)
(* loadRecipes: the fold over the recipe documents                         *)
(***************************************************************************)
\* The loop body once the file is found (lines 83 to 85):
\*   const r = yaml.load(content) || {};  merged = deepmerge(merged, r);
\* A file is held as `loaded`, the value yaml.load gives for its content:
\* undefined (Null) for the empty document.
foldRecipe_swapped(merged, loaded) ==
  LET r == IF Truthy(loaded) THEN loaded ELSE EmptyMap
  IN deepmerge(r, merged)

foldRecipe_assign(merged, loaded) ==
  IF Truthy(loaded) THEN loaded ELSE EmptyMap

foldRecipe(merged, loaded) ==
  LET r == IF Truthy(loaded) THEN loaded ELSE EmptyMap
  IN deepmerge(merged, r)

(***************************************************************************)
(* The file system and the recipes of the runs                             *)
(***************************************************************************)
W(word) == <<word>>

\* process.cwd() when the command starts, and __dirname of bin/scaffold.js.
Root == <<SLASH, "work">>

ScriptDir == <<SLASH, "pkg", SLASH, "bin">>

\* Two directories of the working directory: out, which is no repository,
\* and repo, which holds a .git already.
OutDir == join(Root, W("out"))

RepoDir == join(Root, W("repo"))

InitialDirs == {Root, OutDir, RepoDir, join(RepoDir, <<DOT, "git">>)}

\* The repository of repo has a commit.
InitialCommits == {RepoDir}

\* The default branch of the template repository, which a repository
\* created from it starts with.
TemplateBranch == W("main")

\* A recipe with every section: seeding from a directory, a default name,
\* protection with an approvals entry for dev only, two secrets read from
\* the same environment variable, and a project.
FullRecipe ==
  Map((W("source") :> Map(W("dir") :> Str(W("seed")))) @@
      (W("github") :>
         Map((W("name") :> Str(W("widgets"))) @@
             (W("owner") :> Str(W("acme"))) @@
             (W("visibility") :> Str(W("public"))) @@
             (W("branches") :>
                Map((W("default") :> Str(W("main"))) @@
                    (W("integration") :> Str(W("dev"))))) @@
             (W("protection") :>
                Map((W("approvals") :> Map(W("dev") :> Num(1))) @@
                    (W("strict") :> Str(W("true"))))) @@
             (W("secrets") :>
                List(<<Map((W("name") :> Str(W("S1"))) @@
                           (W("fromEnv") :> Str(W("E1")))),
                       Map((W("name") :> Str(W("S2"))) @@
                           (W("fromEnv") :> Str(W("E1"))))>>)))) @@
      (W("project") :> Map(W("type") :> Str(W("NodeProject")))))

\* The least a run needs, owner, visibility and the branch names; no
\* source.
BareRecipe ==
  Map(W("github") :>
        Map((W("owner") :> Str(W("acme"))) @@
            (W("visibility") :> Str(W("private"))) @@
            (W("branches") :>
               Map((W("default") :> Str(W("main"))) @@
                   (W("integration") :> Str(W("dev")))))))

\* Owner and visibility only: no github.branches and no source.
PlainRecipe ==
  Map(W("github") :>
        Map((W("owner") :> Str(W("acme"))) @@
            (W("visibility") :> Str(W("private")))))

\* No github.owner; a template repository.
NoOwnerRecipe ==
  Map((W("source") :> Map(W("repo") :> Str(<<"org", SLASH, "tpl">>))) @@
      (W("github") :>
         Map((W("name") :> Str(W("widgets"))) @@
             (W("visibility") :> Str(W("public"))))))

\* No github.visibility and no github.branches; seeding from a directory and
\* protection without an approvals mapping.
NoVisRecipe ==
  Map((W("source") :> Map(W("dir") :> Str(W("seed")))) @@
      (W("github") :>
         Map((W("owner") :> Str(W("org"))) @@
             (W("protection") :> Map(W("strict") :> Str(W("true")))))))

\* recipesDir = path.resolve(__dirname, '../recipes')
recipesDir == resolve(ScriptDir, <<DOT, DOT, SLASH, "recipes">>)

\* The regular files: path -> what yaml.load gives for the content.  The
\* recipe directory holds full.yaml and full.txt, bare.yml only, noowner and
\* noowner.yml, novis.json, and out.yaml, named like the directory out of the
\* working directory; the working directory holds a file novis.
Files ==
  (join(recipesDir, <<"full", DOT, "yaml">>) :> FullRecipe) @@
  (join(recipesDir, <<"full", DOT, "txt">>) :> BareRecipe) @@
  (join(recipesDir, <<"bare", DOT, "yml">>) :> BareRecipe) @@
  (join(recipesDir, <<"noowner">>) :> NoOwnerRecipe) @@
  (join(recipesDir, <<"noowner", DOT, "yml">>) :> BareRecipe) @@
  (join(recipesDir, <<"novis", DOT, "json">>) :> FullRecipe) @@
  (join(recipesDir, <<"out", DOT, "yaml">>) :> PlainRecipe) @@
  (join(Root, <<"novis">>) :> NoVisRecipe)

isFile(p) == p \in DOMAIN Files

RecipeExts == <<<<>>, <<DOT, "yaml">>, <<DOT, "yml">>, <<DOT, "json">>, <<DOT, "txt">>>>

\* The recipe directory searched before the working directory.
findRecipe_dirFirst(ref, workdir) ==
  LET hits == {i \in 1..Len(RecipeExts) :
                 isFile(join(recipesDir, ref \o RecipeExts[i]))}
  IN IF hits # {}
       THEN join(recipesDir,
                 ref \o RecipeExts[CHOOSE i \in hits : \A j \in hits : i <= j])
     ELSE IF ref # <<>> /\ isFile(resolve(workdir, ref)) THEN resolve(workdir, ref)
     ELSE <<>>

\* The file a reference resolves to (lines 68 to 79), <<>> when there is
\* none: the reference itself if it is a regular file (relative to the
\* working directory), else the first of the extensions that names a regular
\* file of the recipe directory.
findRecipe(ref, workdir) ==
  IF ref # <<>> /\ isFile(resolve(workdir, ref)) THEN resolve(workdir, ref)
  ELSE LET hits == {i \in 1..Len(RecipeExts) :
                      isFile(join(recipesDir, ref \o RecipeExts[i]))}
       IN IF hits = {} THEN <<>>
          ELSE join(recipesDir,
                    ref \o RecipeExts[CHOOSE i \in hits : \A j \in hits : i <= j])

\* loadRecipes(refs) from the accumulated `merged` on, `read` being the
\* files read so far: ok is FALSE when a reference names no file ('Recipe
\* not found' is thrown).
RECURSIVE loadFrom(_, _, _, _)
loadFrom(refs, merged, read, workdir) ==
  IF refs = <<>> THEN [ok |-> TRUE, v |-> merged, read |-> read]
  ELSE LET filePath == findRecipe(Head(refs), workdir)
       IN IF filePath = <<>> THEN [ok |-> FALSE, v |-> merged, read |-> read]
          ELSE loadFrom(Tail(refs), foldRecipe(merged, Files[filePath]),
                        Append(read, filePath), workdir)

loadRecipes(refs, workdir) == loadFrom(refs, EmptyMap, <<>>, workdir)

(***************************************************************************)
(* The state of a run of main                                              *)
(***************************************************************************)
MaxArgs == 3

MaxRejects == 1

MaxRuns == 2

MaxRerunArgs == 2

\* The command line arguments a run is started with: recipe references and
\* targets (a name with surrounding whitespace, owner/name, a name with a
\* second separator, the current directory, the two existing directories,
\* the second of them as ./repo).
RecipeRefs == {W("full"), W("bare"), W("noowner"), W("novis")}

Targets ==
  {<<SPACE, "thing", SPACE>>, <<"other", SLASH, "thing">>,
   <<"other", SLASH, "thing", SLASH, "x">>, <<DOT>>, W("out"),
   <<DOT, SLASH, "repo">>}

ArgStrings == RecipeRefs \cup Targets

ArgLists == UNION {[1..k -> ArgStrings] : k \in 0..MaxArgs}

\* process.env at the start: E1 unset, set to the empty string, or set.
EnvChoices == {<<>>, W("E1") :> <<>>, W("E1") :> W("v")}

\* What the operator may type at the password prompt.
PromptInputs == {<<>>, <<"p", NL, "q">>}

VARIABLES
  args,        \* process.argv.slice(2)
  env,         \* process.env: name -> value, for the names that are set
  dirs,        \* the directories of the file system
  repos,       \* the repositories on the host, as owner/name
  envFile,     \* the lines appended to .env files, with the file's path
  cwd,         \* process.cwd()
  pc,          \* where main stands
  stage,       \* main's `stage`
  recipeRefs,  \* main's `recipeRefs`
  target,      \* main's `target` (Null while undefined)
  recipe,      \* main's `recipe`
  isLocal,     \* main's `isLocal`
  owner,       \* main's `owner` (Null while not assigned)
  repoName,    \* main's `repoName` (Null while undefined)
  si,          \* the index of the secret the loop of line 136 is at
  bi,          \* the index of the branch the loop of line 191 is at
  calls,       \* the external commands issued so far, with their outcome
  prompts,     \* the prompts shown so far
  rejects,     \* how often the password prompt refused an empty value
  exitCode,    \* the exit status, -1 while the process runs
  reported,    \* the stage named by 'Error occurred at stage', "" if none
  env0,        \* the environment the shell gives each run of the command
  runs,        \* how many runs of the command were started
  commits,     \* the working directories whose repository has a commit
  heads,       \* <<directory, branch>>: the branches `git checkout -b` made
  remote       \* <<owner/name, branch>>: the branches the host holds

mainVars ==
  <<args, env, dirs, repos, envFile, cwd, pc, stage, recipeRefs, target, recipe,
    isLocal, owner, repoName, si, bi, calls, prompts, rejects, exitCode, reported,
    env0, runs, commits, heads, remote>>

(***************************************************************************)
(* The documents the merge is explored on: two top-level keys, x holding   *)
(* nothing or a scalar, y holding nothing, a scalar, a sequence or a       *)
(* nested mapping (of a scalar or a sequence); and the empty document.     *)
(***************************************************************************)
MaxDocs == 3

kx == <<"x">>

ky == <<"y">>

ka == <<"a">>

kb == <<"b">>

XValues == {Null, Num(1), Num(2)}

YValues ==
  {Null, Num(1), List(<<Num(1)>>), List(<<Num(2)>>),
   Map(ka :> Num(1)), Map(ka :> List(<<Num(1)>>)), Map(kb :> Num(2))}

\* The mapping with x |-> vx and y |-> vy, a Null value meaning no such key.
Doc(vx, vy) ==
  Map([k \in {j \in {kx, ky} : (IF j = kx THEN vx ELSE vy) # Null} |->
         IF k = kx THEN vx ELSE vy])

MergeDocs == {Null} \cup {Doc(vx, vy) : vx \in XValues, vy \in YValues}

VARIABLES
  mDocs,    \* the recipe files folded so far (as loaded), in order
  mMerged,  \* loadRecipes' `merged`
  mHist     \* mHist[i]: `merged` after i - 1 documents

mergeVars == <<mDocs, mMerged, mHist>>

vars == <<mainVars, mergeVars, env0,
                 runs, commits, heads, remote>>

\* No run of main is under way.
MainIdle ==
  /\ args = <<>> /\ env = <<>> /\ dirs = InitialDirs /\ repos = {} /\ envFile = <<>>
  /\ cwd = Root /\ pc = "idle" /\ stage = "start" /\ recipeRefs = <<>>
  /\ target = Null /\ recipe = Null /\ isLocal = FALSE /\ owner = Null
  /\ repoName = Null /\ si = 1 /\ bi = 1 /\ calls = <<>> /\ prompts = <<>>
  /\ rejects = 0 /\ exitCode = -1 /\ reported = ""
  /\ env0 = <<>> /\ runs = 0 /\ commits = InitialCommits /\ heads = {} /\ remote = {}

\* No documents are being folded.
MergeIdle ==
  /\ mDocs = <<>>
  /\ mMerged = EmptyMap
  /\ mHist = <<EmptyMap>>

MergeInit == MergeIdle /\ MainIdle

\* One iteration of loadRecipes' loop on a file that was found.
MergeLoad(loaded) ==
  /\ Len(mDocs) < MaxDocs
  /\ mDocs' = Append(mDocs, loaded)
  /\ mMerged' = foldRecipe(mMerged, loaded)
  /\ mHist' = Append(mHist, mMerged')
  /\ UNCHANGED mainVars

MergeNext == \E loaded \in MergeDocs : MergeLoad(loaded)

MergeSpec == MergeInit /\ [][MergeNext]_vars

(***************************************************************************)
(* Properties of the merge                                                 *)
(***************************************************************************)
\* The value a document holds at a path of keys, Null when it holds none.
RECURSIVE At(_, _)
At(v, path) == IF path = <<>> THEN v ELSE At(Get(v, Head(path)), Tail(path))

MergePaths == {<<kx>>, <<ky>>, <<ky, ka>>, <<ky, kb>>}

\* The mapping a document contributes: the empty document contributes {}.
AsMapping(d) == IF d.t = "map" THEN d ELSE EmptyMap

IsScalar(v) == v.t \in {"num", "str"}

MaxOf(S) == CHOOSE i \in S : \A j \in S : j <= i

ExampleA == Doc(Num(1), Map(ka :> Num(1)))

ExampleB == Doc(Num(2), Map(kb :> Num(2)))

ExampleAB == Doc(Num(2), Map((ka :> Num(1)) @@ (kb :> Num(2))))

ExampleBA == Doc(Num(1), Map((ka :> Num(1)) @@ (kb :> Num(2))))

\* C3 (as stated): at a path that holds a sequence in more than one of the
\* merged documents, the last of which is the last document to define the
\* path, the effective configuration holds exactly that last sequence
\* (replacement, no concatenation).
C3_SequenceReplacement ==
  \A p \in MergePaths :
    LET holders == {i \in 1..Len(mDocs) : At(mDocs[i], p).t = "list"}
        definers == {i \in 1..Len(mDocs) : At(mDocs[i], p) # Null}
        last == MaxOf(definers)
    IN (/\ Cardinality(holders) >= 2
        /\ last \in holders
        /\ \A i \in (last + 1)..Len(mDocs) :
             \A n \in 1..(Len(p) - 1) :
               At(mDocs[i], SubSeq(p, 1, n)).t \in {"null", "map"})
       => At(mMerged, p) = At(mDocs[last], p)

\* C4: for two documents A (earlier) and B (later): every top-level key of
\* either is a key of the result; where both hold mappings the result holds
\* a mapping whose keys are the union of theirs; a key only one of two such
\* mappings has keeps its value; where both hold scalars the result holds
\* B's scalar; and the README example gives {x:2,y:{a:1,b:2}} one way round
\* and {x:1,y:{a:1,b:2}} the other.
C4_OrderSensitiveUnion ==
  Len(mDocs) = 2 =>
    LET A == AsMapping(mDocs[1])
        B == AsMapping(mDocs[2])
    IN /\ \A p \in {<<>>} \cup MergePaths :
            (At(A, p).t = "map" /\ At(B, p).t = "map") =>
              /\ At(mMerged, p).t = "map"
              /\ Keys(At(mMerged, p)) = Keys(At(A, p)) \cup Keys(At(B, p))
              /\ \A k \in Keys(At(A, p)) \ Keys(At(B, p)) :
                   At(mMerged, p).m[k] = At(A, p).m[k]
              /\ \A k \in Keys(At(B, p)) \ Keys(At(A, p)) :
                   At(mMerged, p).m[k] = At(B, p).m[k]
       /\ \A p \in MergePaths :
            (IsScalar(At(A, p)) /\ IsScalar(At(B, p))) => At(mMerged, p) = At(B, p)
       /\ (mDocs = <<ExampleA, ExampleB>>) => mMerged = ExampleAB
       /\ (mDocs = <<ExampleB, ExampleA>>) => mMerged = ExampleBA

C4_Witness ==
  /\ mDocs = <<ExampleA, ExampleB>>
  /\ mMerged = ExampleAB
  /\ mMerged # ExampleBA

\* C5: loading three documents A, B, C gives merge(merge(A, B), C), merge
\* being the two-argument deep merge; and a document that parses to empty
\* leaves the configuration accumulated before it unchanged.
C5_FoldAssociativity ==
  /\ Len(mDocs) = 3 =>
       mMerged = deepmerge(deepmerge(AsMapping(mDocs[1]), AsMapping(mDocs[2])),
                           AsMapping(mDocs[3]))
  /\ \A i \in 1..Len(mDocs) : mDocs[i] = Null => mHist[i + 1] = mHist[i]

C5_Witness ==
  /\ mDocs = <<ExampleA, Null, ExampleB>>
  /\ mMerged = ExampleAB

(***************************************************************************)
(* main: one action for each stretch of code between two awaited external  *)
(* commands or prompts.  An external command ends with success or failure; *)
(* zx's $ throws on failure.                                               *)
(***************************************************************************)
Init ==
  /\ args \in ArgLists
  /\ env \in EnvChoices
  /\ dirs = InitialDirs
  /\ repos = {}
  /\ envFile = <<>>
  /\ cwd = Root
  /\ pc = "start"
  /\ stage = "start"
  /\ recipeRefs = <<>>
  /\ target = Null
  /\ recipe = Null
  /\ isLocal = FALSE
  /\ owner = Null
  /\ repoName = Null
  /\ si = 1
  /\ bi = 1
  /\ calls = <<>>
  /\ prompts = <<>>
  /\ rejects = 0
  /\ exitCode = -1
  /\ reported = ""
  /\ env0 = env
  /\ runs = 1
  /\ commits = InitialCommits
  /\ heads = {}
  /\ remote = {}
  /\ MergeIdle

\* The record of an external command: its arguments a, b, c and n, whether
\* it succeeded, and the working directory and stage it was issued in.
Call(cmd, a, b, c, n, ok, st) ==
  [cmd |-> cmd, a |-> a, b |-> b, c |-> c, n |-> n, ok |-> ok,
   cwd |-> cwd, stage |-> st]

\* The catch block of lines 225 to 229, entered with `stage` = st.
Throw(st) ==
  /\ pc' = "exited"
  /\ exitCode' = 1
  /\ reported' = st

\* An external command of stage st, issued from position pc: on success
\* main goes on at `next`, on failure the error is thrown.
Run_uncaught(cmd, a, b, c, n, ok, st, next) ==
  /\ calls' = Append(calls, Call(cmd, a, b, c, n, ok, st))
  /\ pc' = next
  /\ UNCHANGED <<exitCode, reported>>

Run(cmd, a, b, c, n, ok, st, next) ==
  /\ calls' = Append(calls, Call(cmd, a, b, c, n, ok, st))
  /\ IF ok THEN pc' = next /\ UNCHANGED <<exitCode, reported>>
           ELSE Throw(st)

github == Get(recipe, W("github"))

\* Lines 99 to 105: with one argument it is the only recipe reference and
\* the target stays undefined; else the last argument is the target.
parseArgs_firstIsTarget(a) ==
  IF Len(a) = 1 THEN [recipeRefs |-> a, target |-> Null]
  ELSE [recipeRefs |-> Tail(a), target |-> Str(a[1])]

parseArgs(a) ==
  IF Len(a) = 1 THEN [recipeRefs |-> a, target |-> Null]
  ELSE [recipeRefs |-> SubSeq(a, 1, Len(a) - 1), target |-> Str(a[Len(a)])]

\* Lines 94 to 105.
ParseArgs ==
  /\ pc = "start"
  /\ stage' = "parsing arguments"
  /\ IF Len(args) < 1
       THEN /\ Throw(stage')
            /\ UNCHANGED <<recipeRefs, target>>
       ELSE /\ pc' = "load"
            /\ recipeRefs' = parseArgs(args).recipeRefs
            /\ target' = parseArgs(args).target
            /\ UNCHANGED <<exitCode, reported>>
  /\ UNCHANGED <<args, env, dirs, repos, envFile, cwd, recipe, isLocal, owner,
                 repoName, si, bi, calls, prompts, rejects, mergeVars, env0,
                 runs, commits, heads, remote>>

\* Lines 108 and 109.
LoadRecipes ==
  /\ pc = "load"
  /\ stage' = "loading recipes"
  /\ LET r == loadRecipes(recipeRefs, cwd)
     IN IF r.ok
          THEN pc' = "target" /\ recipe' = r.v /\ UNCHANGED <<exitCode, reported>>
          ELSE Throw(stage') /\ UNCHANGED recipe
  /\ UNCHANGED <<args, env, dirs, repos, envFile, cwd, recipeRefs, target, isLocal,
                 owner, repoName, si, bi, calls, prompts, rejects, mergeVars, env0,
                 runs, commits, heads, remote>>

\* Line 120: !recipe.github?.owner || !recipe.github?.visibility
missingConfig_ownerOnly(r) == ~Truthy(Get2(r, W("github"), W("owner")))

\* github.branches required with the owner and the visibility.
missingConfig_withBranches(r) ==
  \/ ~Truthy(Get2(r, W("github"), W("owner")))
  \/ ~Truthy(Get2(r, W("github"), W("visibility")))
  \/ ~Truthy(Get2(r, W("github"), W("branches")))

missingConfig(r) ==
  \/ ~Truthy(Get2(r, W("github"), W("owner")))
  \/ ~Truthy(Get2(r, W("github"), W("visibility")))

\* Lines 112 to 122.
DetermineTarget ==
  /\ pc = "target"
  /\ stage' = "determining target"
  /\ LET name == Get(github, W("name"))
         noName == Len(args) = 1 /\ ~Truthy(name)
         missing == missingConfig(recipe)
     IN /\ target' = IF Len(args) = 1 /\ Truthy(name) THEN name ELSE target
        /\ IF noName \/ missing
             THEN Throw(stage')
             ELSE pc' = "auth" /\ UNCHANGED <<exitCode, reported>>
  /\ UNCHANGED <<args, env, dirs, repos, envFile, cwd, recipeRefs, recipe, isLocal,
                 owner, repoName, si, bi, calls, prompts, rejects, mergeVars, env0,
                 runs, commits, heads, remote>>

\* Lines 125 to 128: gh auth status; its failure is caught.
AuthStatus(ok) ==
  /\ pc = "auth"
  /\ stage' = "checking GH CLI auth"
  /\ calls' = Append(calls, Call("gh auth status", <<>>, <<>>, <<>>, 0, ok, stage'))
  /\ pc' = IF ok THEN "secrets" ELSE "login"
  /\ UNCHANGED <<args, env, dirs, repos, envFile, cwd, recipeRefs, target, recipe,
                 isLocal, owner, repoName, si, bi, prompts, rejects, exitCode,
                 reported, mergeVars, env0,
                 runs, commits, heads, remote>>

\* Lines 129 to 131: gh auth login, once.
AuthLogin(ok) ==
  /\ pc = "login"
  /\ Run("gh auth login", <<>>, <<>>, <<>>, 0, ok, stage, "secrets")
  /\ UNCHANGED <<args, env, dirs, repos, envFile, cwd, stage, recipeRefs, target,
                 recipe, isLocal, owner, repoName, si, bi, prompts, rejects,
                 mergeVars, env0,
                 runs, commits, heads, remote>>

secrets == Get(github, W("secrets"))

\* The environment variable the secret at index si is read from, and the
\* name it is stored under.
secretEnvVar == Get(secrets.l[si], W("fromEnv")).s

secretName == Get(secrets.l[si], W("name")).s

\* process.env[envVar] is truthy: set, and not to the empty string.
envHas_never(e, envVar) == FALSE

envHas(e, envVar) == envVar \in DOMAIN e /\ e[envVar] # <<>>

\* The secrets left for later: the stage passes without a command.
InjectSecrets_deferred ==
  /\ pc = "secrets"
  /\ stage' = "injecting secrets"
  /\ pc' = "create"
  /\ UNCHANGED <<args, env, dirs, repos, envFile, cwd, recipeRefs, target, recipe,
                 isLocal, owner, repoName, si, bi, calls, prompts, rejects, exitCode,
                 reported, mergeVars, env0, runs, commits, heads, remote>>

\* Lines 134 to 137 and getSecret's lines 39 to 46: the head of the loop over
\* the secrets, and getSecret up to its first prompt.
InjectSecrets ==
  /\ pc = "secrets"
  /\ stage' = "injecting secrets"
  /\ IF ~Truthy(secrets) \/ (secrets.t = "list" /\ si > Len(secrets.l))
       THEN pc' = "create" /\ UNCHANGED <<prompts, exitCode, reported>>
       ELSE IF secrets.t # "list"
         THEN Throw(stage') /\ UNCHANGED prompts
       ELSE IF envHas(env, secretEnvVar)
         THEN pc' = "secretset" /\ UNCHANGED <<prompts, exitCode, reported>>
       ELSE /\ pc' = "password"
            /\ prompts' = Append(prompts, [kind |-> "password", name |-> secretEnvVar])
            /\ UNCHANGED <<exitCode, reported>>
  /\ UNCHANGED <<args, env, dirs, repos, envFile, cwd, recipeRefs, target, recipe,
                 isLocal, owner, repoName, si, bi, calls, rejects, mergeVars, env0,
                 runs, commits, heads, remote>>

\* getSecret's lines 40 to 54: the operator answers the password prompt.  An
\* empty value is refused by `validate` and asked for again; any other is
\* stored in process.env and the confirmation is asked for.
AnswerPassword(val) ==
  /\ pc = "password"
  /\ IF val = <<>>
       THEN /\ rejects < MaxRejects
            /\ rejects' = rejects + 1
            /\ UNCHANGED <<env, prompts, pc>>
       ELSE /\ env' = [n \in DOMAIN env \cup {secretEnvVar} |->
                         IF n = secretEnvVar THEN val ELSE env[n]]
            /\ prompts' = Append(prompts, [kind |-> "confirm", name |-> secretEnvVar])
            /\ pc' = "confirm"
            /\ UNCHANGED rejects
  /\ UNCHANGED <<args, dirs, repos, envFile, cwd, stage, recipeRefs, target, recipe,
                 isLocal, owner, repoName, si, bi, calls, exitCode, reported,
                 mergeVars, env0,
                 runs, commits, heads, remote>>

\* getSecret's lines 55 to 61: the operator answers the confirmation; `text`
\* is what appendFileSync is given, a newline and then NAME=value.
AnswerConfirm(save) ==
  /\ pc = "confirm"
  /\ envFile' = IF save
                  THEN Append(envFile, [path |-> resolve(cwd, <<DOT, "env">>),
                                        name |-> secretEnvVar,
                                        value |-> stripNewlines(env[secretEnvVar]),
                                        text |-> <<NL>> \o secretEnvVar \o <<"=">> \o
                                                 stripNewlines(env[secretEnvVar])])
                  ELSE envFile
  /\ pc' = "secretset"
  /\ UNCHANGED <<args, env, dirs, repos, cwd, stage, recipeRefs, target, recipe,
                 isLocal, owner, repoName, si, bi, calls, prompts, rejects, exitCode,
                 reported, mergeVars, env0,
                 runs, commits, heads, remote>>

\* A failed `gh secret set` that is tried again.
SecretSet_retried(ok) ==
  /\ pc = "secretset"
  /\ calls' = Append(calls, Call("gh secret set", secretName, env[secretEnvVar],
                                 <<>>, 0, ok, stage))
  /\ pc' = IF ok THEN "secrets" ELSE "secretset"
  /\ si' = IF ok THEN si + 1 ELSE si
  /\ UNCHANGED <<args, env, dirs, repos, envFile, cwd, stage, recipeRefs, target,
                 recipe, isLocal, owner, repoName, bi, prompts, rejects, exitCode,
                 reported, mergeVars, env0, runs, commits, heads, remote>>

\* Line 138: gh secret set <name> --body="<val>", val what getSecret returned.
SecretSet(ok) ==
  /\ pc = "secretset"
  /\ Run("gh secret set", secretName, env[secretEnvVar], <<>>, 0, ok, stage, "secrets")
  /\ si' = IF ok THEN si + 1 ELSE si
  /\ UNCHANGED <<args, env, dirs, repos, envFile, cwd, stage, recipeRefs, target,
                 recipe, isLocal, owner, repoName, bi, prompts, rejects, mergeVars, env0,
                 runs, commits, heads, remote>>

existsSync_never(p) == FALSE

existsSync(p) == p \in dirs \/ isFile(p)

\* `${owner}/${repoName}` as the commands take it.
fullName(o, r) == o.s \o <<SLASH>> \o r.s

\* Lines 157 to 162: the owner and the name of a Remote target t, given the
\* configured owner.
remoteName(t, configured) ==
  IF includes(t, SLASH)
    THEN LET parts == splitLimit(t, SLASH, 2)
         IN [owner |-> Str(parts[1]), repoName |-> Str(trim(parts[2]))]
    ELSE [owner |-> configured, repoName |-> Str(trim(t))]

\* Line 151: !fs.existsSync(path.join(workdir, '.git'))
needsInit_always(workdir) == TRUE

needsInit(workdir) == ~existsSync(join(workdir, <<DOT, "git">>))

\* Lines 143 to 151 (Local) and 143 to 165 (Remote): the mode, the owner and
\* the repository name, up to the first external command of the stage.
CreateOrClone ==
  /\ pc = "create"
  /\ stage' = "creating or cloning repo"
  /\ isLocal' = (target.s = <<DOT>> \/ (target.s # <<>> /\ existsSync(resolve(cwd, target.s))))
  /\ IF isLocal'
       THEN LET workdir == resolve(cwd, target.s)
            IN /\ owner' = Get(github, W("owner"))
               /\ IF isFile(workdir)
                    THEN \* mkdirSync throws: the path is a regular file
                         /\ Throw(stage')
                         /\ UNCHANGED <<dirs, cwd, repoName>>
                    ELSE /\ dirs' = dirs \cup {workdir}
                         /\ cwd' = workdir
                         /\ IF needsInit(workdir)
                              THEN pc' = "gitinit" /\ UNCHANGED repoName
                              ELSE pc' = "seed" /\ repoName' = Str(basename(workdir))
                         /\ UNCHANGED <<exitCode, reported>>
       ELSE /\ owner' = remoteName(target.s, Get(github, W("owner"))).owner
            /\ repoName' = remoteName(target.s, Get(github, W("owner"))).repoName
            /\ pc' = "repocreate"
            /\ UNCHANGED <<dirs, cwd, exitCode, reported>>
  /\ UNCHANGED <<args, env, repos, envFile, recipeRefs, target, recipe, si, bi, calls,
                 prompts, rejects, mergeVars, env0,
                 runs, commits, heads, remote>>

\* Lines 152 to 154: git init in a directory without .git.
GitInit(ok) ==
  /\ pc = "gitinit"
  /\ Run("git init", <<>>, <<>>, <<>>, 0, ok, stage, "seed")
  /\ dirs' = IF ok THEN dirs \cup {join(cwd, <<DOT, "git">>)} ELSE dirs
  /\ repoName' = IF ok THEN Str(basename(cwd)) ELSE repoName
  /\ UNCHANGED <<args, env, repos, envFile, cwd, stage, recipeRefs, target, recipe,
                 isLocal, owner, si, bi, prompts, rejects, mergeVars, env0,
                 runs, commits, heads, remote>>

\* A creation that is skipped when the repository exists.
RepoCreate_skipExisting(ok) ==
  /\ pc = "repocreate"
  /\ IF fullName(owner, repoName) \in repos
       THEN pc' = "clone" /\ UNCHANGED <<calls, exitCode, reported>>
       ELSE Run("gh repo create", fullName(owner, repoName),
                Get2(recipe, W("source"), W("repo")).s, Get(github, W("visibility")).s,
                0, ok, stage, "clone")
  /\ repos' = IF ok THEN repos \cup {fullName(owner, repoName)} ELSE repos
  /\ UNCHANGED <<args, env, dirs, envFile, cwd, stage, recipeRefs, target, recipe,
                 isLocal, owner, repoName, si, bi, prompts, rejects, mergeVars,
                 env0, runs, commits, heads, remote>>

\* Line 166: gh repo create owner/name [--template repo] --visibility.  The
\* host refuses a name that is taken; a repository made from a template
\* starts with the template's default branch, any other without a branch.
RepoCreate(ok) ==
  /\ pc = "repocreate"
  /\ ok => fullName(owner, repoName) \notin repos
  /\ Run("gh repo create", fullName(owner, repoName),
         Get2(recipe, W("source"), W("repo")).s, Get(github, W("visibility")).s,
         0, ok, stage, "clone")
  /\ repos' = IF ok THEN repos \cup {fullName(owner, repoName)} ELSE repos
  /\ remote' = IF ok /\ Truthy(Get2(recipe, W("source"), W("repo")))
                 THEN remote \cup {<<fullName(owner, repoName), TemplateBranch>>}
                 ELSE remote
  /\ UNCHANGED <<args, env, dirs, envFile, cwd, stage, recipeRefs, target, recipe,
                 isLocal, owner, repoName, si, bi, prompts, rejects, mergeVars, env0,
                 runs, commits, heads>>

\* Lines 167 and 168: git clone, then process.chdir(repoName).  git refuses
\* to clone into a directory that exists; the clone of a repository that was
\* created from a template has the template's commit, any other is empty.
GitClone(ok) ==
  /\ pc = "clone"
  /\ ok => resolve(cwd, repoName.s) \notin dirs
  /\ Run("git clone", fullName(owner, repoName), <<>>, <<>>, 0, ok, stage, "seed")
  /\ dirs' = IF ok
              THEN dirs \cup {resolve(cwd, repoName.s),
                              join(resolve(cwd, repoName.s), <<DOT, "git">>)}
              ELSE dirs
  /\ cwd' = IF ok THEN resolve(cwd, repoName.s) ELSE cwd
  /\ commits' = IF ok /\ (\E b \in remote : b[1] = fullName(owner, repoName))
                  THEN commits \cup {resolve(cwd, repoName.s)}
                  ELSE commits
  /\ UNCHANGED <<args, env, repos, envFile, stage, recipeRefs, target, recipe,
                 isLocal, owner, repoName, si, bi, prompts, rejects, mergeVars, env0,
                 runs, heads, remote>>

sourceDir == Get2(recipe, W("source"), W("dir"))

branches == Get(github, W("branches"))

mainBranch == Get(branches, W("default"))

devBranch == Get(branches, W("integration"))

\* Lines 172 and 173.
Seed ==
  /\ pc = "seed"
  /\ stage' = "seeding from local directory"
  /\ pc' = IF Truthy(sourceDir) THEN "cp" ELSE "branch"
  /\ UNCHANGED <<args, env, dirs, repos, envFile, cwd, recipeRefs, target, recipe,
                 isLocal, owner, repoName, si, bi, calls, prompts, rejects, exitCode,
                 reported, mergeVars, env0,
                 runs, commits, heads, remote>>

\* Line 175: cp -R <src>/. .
SeedCopy(ok) ==
  /\ pc = "cp"
  /\ Run("cp", sourceDir.s, <<>>, <<>>, 0, ok, stage, "seedcommit")
  /\ UNCHANGED <<args, env, dirs, repos, envFile, cwd, stage, recipeRefs, target,
                 recipe, isLocal, owner, repoName, si, bi, prompts, rejects,
                 mergeVars, env0,
                 runs, commits, heads, remote>>

\* The seeding commit pushed whatever the mode.
SeedCommit_alwaysPush(ok) ==
  /\ pc = "seedcommit"
  /\ Run("git commit", sourceDir.s, <<>>, <<>>, 0, ok, stage, "seedpush")
  /\ commits' = IF ok THEN commits \cup {cwd} ELSE commits
  /\ UNCHANGED <<args, env, dirs, repos, envFile, cwd, stage, recipeRefs, target,
                 recipe, isLocal, owner, repoName, si, bi, prompts, rejects,
                 mergeVars, env0, runs, heads, remote>>

\* Line 176: git add . && git commit.
SeedCommit(ok) ==
  /\ pc = "seedcommit"
  /\ Run("git commit", sourceDir.s, <<>>, <<>>, 0, ok, stage,
         IF isLocal THEN "branch" ELSE "seedpush")
  /\ commits' = IF ok THEN commits \cup {cwd} ELSE commits
  /\ UNCHANGED <<args, env, dirs, repos, envFile, cwd, stage, recipeRefs, target,
                 recipe, isLocal, owner, repoName, si, bi, prompts, rejects,
                 mergeVars, env0,
                 runs, heads, remote>>

\* Line 177, Remote only: git push origin <default branch>.  Reading
\* recipe.github.branches.default throws when there is no github.branches.
SeedPush(ok) ==
  /\ pc = "seedpush"
  /\ IF branches.t = "null"
       THEN Throw(stage) /\ UNCHANGED calls
       ELSE Run("git push", mainBranch.s, <<>>, <<>>, 0, ok, stage, "branch")
  /\ remote' = IF ok /\ branches.t # "null"
                 THEN remote \cup {<<fullName(owner, repoName), mainBranch.s>>}
                 ELSE remote
  /\ UNCHANGED <<args, env, dirs, repos, envFile, cwd, stage, recipeRefs, target,
                 recipe, isLocal, owner, repoName, si, bi, prompts, rejects,
                 mergeVars, env0,
                 runs, commits, heads>>

\* Lines 181 to 183: the branch names are read; that throws when there is no
\* github.branches.
IntegrationBranch ==
  /\ pc = "branch"
  /\ stage' = "creating integration branch"
  /\ IF branches.t = "null"
       THEN Throw(stage')
       ELSE pc' = "checkout" /\ UNCHANGED <<exitCode, reported>>
  /\ UNCHANGED <<args, env, dirs, repos, envFile, cwd, recipeRefs, target, recipe,
                 isLocal, owner, repoName, si, bi, calls, prompts, rejects,
                 mergeVars, env0,
                 runs, commits, heads, remote>>

\* Line 184: git checkout -b <integration branch>.  git refuses a branch
\* name that exists; in a repository without a commit the new branch is
\* unborn: HEAD names it but there is no such ref yet.
Checkout(ok) ==
  /\ pc = "checkout"
  /\ ok => <<cwd, devBranch.s>> \notin heads
  /\ Run("git checkout -b", devBranch.s, <<>>, <<>>, 0, ok, stage,
         IF isLocal THEN "protect" ELSE "devpush")
  /\ heads' = IF ok /\ cwd \in commits THEN heads \cup {<<cwd, devBranch.s>>} ELSE heads
  /\ UNCHANGED <<args, env, dirs, repos, envFile, cwd, stage, recipeRefs, target,
                 recipe, isLocal, owner, repoName, si, bi, prompts, rejects,
                 mergeVars, env0,
                 runs, commits, remote>>

\* The run without the push of line 185.
DevPush_skipped(ok) ==
  /\ pc = "devpush"
  /\ pc' = "protect"
  /\ UNCHANGED <<args, env, dirs, repos, envFile, cwd, stage, recipeRefs, target,
                 recipe, isLocal, owner, repoName, si, bi, calls, prompts, rejects,
                 exitCode, reported, mergeVars, env0, runs, commits, heads, remote>>

\* Line 185, Remote only: git push -u origin <integration branch>.  git has
\* nothing to push for an unborn branch ('src refspec does not match any').
DevPush(ok) ==
  /\ pc = "devpush"
  /\ ok => cwd \in commits
  /\ Run("git push -u", devBranch.s, <<>>, <<>>, 0, ok, stage, "protect")
  /\ remote' = IF ok THEN remote \cup {<<fullName(owner, repoName), devBranch.s>>}
                     ELSE remote
  /\ UNCHANGED <<args, env, dirs, repos, envFile, cwd, stage, recipeRefs, target,
                 recipe, isLocal, owner, repoName, si, bi, prompts, rejects,
                 mergeVars, env0,
                 runs, commits, heads>>

protection == Get(github, W("protection"))

\* The branches of the loop of line 191, in its order.
protectedBranches == <<devBranch, mainBranch>>

\* Line 192: p.approvals?.[branch] || 0
approvalsFor_one(branch) ==
  LET a == Get2(protection, W("approvals"), branch.s)
  IN IF Truthy(a) THEN a.n ELSE 1

approvalsFor(branch) ==
  LET a == Get2(protection, W("approvals"), branch.s)
  IN IF Truthy(a) THEN a.n ELSE 0

\* The protection stage guarded by the mode.
Protect_remoteOnly ==
  /\ pc = "protect"
  /\ stage' = "applying branch protection"
  /\ pc' = IF ~isLocal /\ Truthy(protection) /\ bi <= Len(protectedBranches)
             THEN "protectcall" ELSE "projen"
  /\ UNCHANGED <<args, env, dirs, repos, envFile, cwd, recipeRefs, target, recipe,
                 isLocal, owner, repoName, si, bi, calls, prompts, rejects, exitCode,
                 reported, mergeVars, env0, runs, commits, heads, remote>>

\* Lines 188 to 191: the head of the loop over the two branches.
Protect ==
  /\ pc = "protect"
  /\ stage' = "applying branch protection"
  /\ pc' = IF Truthy(protection) /\ bi <= Len(protectedBranches)
             THEN "protectcall" ELSE "projen"
  /\ UNCHANGED <<args, env, dirs, repos, envFile, cwd, recipeRefs, target, recipe,
                 isLocal, owner, repoName, si, bi, calls, prompts, rejects, exitCode,
                 reported, mergeVars, env0,
                 runs, commits, heads, remote>>

\* Lines 192 to 198: gh api repos/<owner>/<repoName>/branches/<branch>/protection
ProtectCall(ok) ==
  /\ pc = "protectcall"
  /\ Run("gh api protection", fullName(owner, repoName), protectedBranches[bi].s,
         <<>>, approvalsFor(protectedBranches[bi]), ok, stage, "protect")
  /\ bi' = IF ok THEN bi + 1 ELSE bi
  /\ UNCHANGED <<args, env, dirs, repos, envFile, cwd, stage, recipeRefs, target,
                 recipe, isLocal, owner, repoName, si, prompts, rejects, mergeVars, env0,
                 runs, commits, heads, remote>>

project == Get(recipe, W("project"))

\* Lines 203 to 218.
Projen ==
  /\ pc = "projen"
  /\ stage' = "running projen synthesis"
  /\ pc' = IF Truthy(project) THEN "npx" ELSE "complete"
  /\ UNCHANGED <<args, env, dirs, repos, envFile, cwd, recipeRefs, target, recipe,
                 isLocal, owner, repoName, si, bi, calls, prompts, rejects, exitCode,
                 reported, mergeVars, env0,
                 runs, commits, heads, remote>>

\* Line 219: npx projen.
Synth(ok) ==
  /\ pc = "npx"
  /\ Run("npx projen", <<>>, <<>>, <<>>, 0, ok, stage, "synthcommit")
  /\ UNCHANGED <<args, env, dirs, repos, envFile, cwd, stage, recipeRefs, target,
                 recipe, isLocal, owner, repoName, si, bi, prompts, rejects,
                 mergeVars, env0,
                 runs, commits, heads, remote>>

\* Line 220: git add . && git commit.
SynthCommit(ok) ==
  /\ pc = "synthcommit"
  /\ Run("git commit", W("projen"), <<>>, <<>>, 0, ok, stage,
         IF isLocal THEN "complete" ELSE "synthpush")
  /\ commits' = IF ok THEN commits \cup {cwd} ELSE commits
  /\ heads' = IF ok THEN heads \cup {<<cwd, devBranch.s>>} ELSE heads
  /\ UNCHANGED <<args, env, dirs, repos, envFile, cwd, stage, recipeRefs, target,
                 recipe, isLocal, owner, repoName, si, bi, prompts, rejects,
                 mergeVars, env0,
                 runs, remote>>

\* Line 221, Remote only: git push, of the integration branch, which is
\* checked out and tracks its upstream.
SynthPush(ok) ==
  /\ pc = "synthpush"
  /\ Run("git push", <<>>, <<>>, <<>>, 0, ok, stage, "complete")
  /\ remote' = IF ok THEN remote \cup {<<fullName(owner, repoName), devBranch.s>>}
                     ELSE remote
  /\ UNCHANGED <<args, env, dirs, repos, envFile, cwd, stage, recipeRefs, target,
                 recipe, isLocal, owner, repoName, si, bi, prompts, rejects,
                 mergeVars, env0,
                 runs, commits, heads>>

\* Line 224: main returns and the process ends with status 0.
Complete ==
  /\ pc = "complete"
  /\ pc' = "exited"
  /\ exitCode' = 0
  /\ UNCHANGED <<args, env, dirs, repos, envFile, cwd, stage, recipeRefs, target,
                 recipe, isLocal, owner, repoName, si, bi, calls, prompts, rejects,
                 reported, mergeVars, env0,
                 runs, commits, heads, remote>>

Next ==
  \/ ParseArgs
  \/ LoadRecipes
  \/ DetermineTarget
  \/ \E ok \in BOOLEAN : AuthStatus(ok)
  \/ \E ok \in BOOLEAN : AuthLogin(ok)
  \/ InjectSecrets
  \/ \E val \in PromptInputs : AnswerPassword(val)
  \/ \E save \in BOOLEAN : AnswerConfirm(save)
  \/ \E ok \in BOOLEAN : SecretSet(ok)
  \/ CreateOrClone
  \/ \E ok \in BOOLEAN : GitInit(ok)
  \/ \E ok \in BOOLEAN : RepoCreate(ok)
  \/ \E ok \in BOOLEAN : GitClone(ok)
  \/ Seed
  \/ \E ok \in BOOLEAN : SeedCopy(ok)
  \/ \E ok \in BOOLEAN : SeedCommit(ok)
  \/ \E ok \in BOOLEAN : SeedPush(ok)
  \/ IntegrationBranch
  \/ \E ok \in BOOLEAN : Checkout(ok)
  \/ \E ok \in BOOLEAN : DevPush(ok)
  \/ Protect
  \/ \E ok \in BOOLEAN : ProtectCall(ok)
  \/ Projen
  \/ \E ok \in BOOLEAN : Synth(ok)
  \/ \E ok \in BOOLEAN : SynthCommit(ok)
  \/ \E ok \in BOOLEAN : SynthPush(ok)
  \/ Complete

Spec == Init /\ [][Next]_vars

\* The command is run again, with the same arguments, from the same
\* directory and shell: a new process, which finds the file system and the
\* host as the earlier runs left them.
Rerun ==
  /\ pc = "exited"
  /\ runs < MaxRuns
  /\ runs' = runs + 1
  /\ env' = env0
  /\ cwd' = Root
  /\ pc' = "start"
  /\ stage' = "start"
  /\ recipeRefs' = <<>>
  /\ target' = Null
  /\ recipe' = Null
  /\ isLocal' = FALSE
  /\ owner' = Null
  /\ repoName' = Null
  /\ si' = 1
  /\ bi' = 1
  /\ calls' = <<>>
  /\ prompts' = <<>>
  /\ rejects' = 0
  /\ exitCode' = -1
  /\ reported' = ""
  /\ UNCHANGED <<args, env0, dirs, repos, envFile, commits, heads, remote, mergeVars>>

RerunNext == Next \/ Rerun

\* The runs that are repeated are those of the shorter command lines.
RerunInit == Init /\ Len(args) <= MaxRerunArgs

RerunSpec == RerunInit /\ [][RerunNext]_vars

(***************************************************************************)
(* Properties of the runs                                                  *)
(***************************************************************************)
StageLabels ==
  <<"start", "parsing arguments", "loading recipes", "determining target",
    "checking GH CLI auth", "injecting secrets", "creating or cloning repo",
    "seeding from local directory", "creating integration branch",
    "applying branch protection", "running projen synthesis">>

\* The position of each label in the list.
StagePositions ==
  [st \in {StageLabels[i] : i \in 1..Len(StageLabels)} |->
     CHOOSE i \in 1..Len(StageLabels) : StageLabels[i] = st]

StageIndex(st) == StagePositions[st]

CallsOf(cmds) == SelectSeq(calls, LAMBDA c : c.cmd \in cmds)

\* C1 (as stated): once any external command of a stage has failed, no
\* command of a later stage is issued, and the run ends with status 1 and a
\* diagnostic that names the stage of the failed command.
C1_AnyFailureAborts ==
  \A i \in 1..Len(calls) :
    ~calls[i].ok =>
      /\ \A j \in (i + 1)..Len(calls) :
           StageIndex(calls[j].stage) <= StageIndex(calls[i].stage)
      /\ pc = "exited" => (exitCode = 1 /\ reported = calls[i].stage)

\* C1 (amended): a failed command other than the `gh auth status` probe is
\* the last command of the run, which has ended with status 1 and a
\* diagnostic naming that command's stage; a failed `gh auth status` is
\* followed, if by anything, by `gh auth login` in the same stage; whenever
\* the run has ended with status 1 the diagnostic names the stage that was
\* active and no command of a later stage was issued; after a failure of
\* the seeding stage there is no branch-creation and no protection call.
C1_StageAbort ==
  /\ \A i \in 1..Len(calls) :
       (~calls[i].ok /\ calls[i].cmd # "gh auth status") =>
         /\ i = Len(calls)
         /\ pc = "exited"
         /\ exitCode = 1
         /\ reported = calls[i].stage
  /\ \A i \in 1..Len(calls) :
       (~calls[i].ok /\ calls[i].cmd = "gh auth status" /\ i < Len(calls)) =>
         /\ calls[i + 1].cmd = "gh auth login"
         /\ calls[i + 1].stage = calls[i].stage
  /\ exitCode = 1 =>
       /\ pc = "exited"
       /\ reported = stage
       /\ \A j \in 1..Len(calls) :
            StageIndex(calls[j].stage) <= StageIndex(reported)
  /\ reported = "seeding from local directory" =>
       CallsOf({"git checkout -b", "git push -u", "gh api protection"}) = <<>>

C1_Witness ==
  /\ calls # <<>>
  /\ ~calls[Len(calls)].ok
  /\ calls[Len(calls)].stage = "seeding from local directory"
  /\ exitCode = 1
  /\ reported = "seeding from local directory"

\* C2 (as stated): no secret-set command is issued before owner and
\* repoName are fixed: whenever one has been issued, both are assigned.
C2_SecretsAfterResolution ==
  CallsOf({"gh secret set"}) # <<>> => (owner # Null /\ repoName # Null)

\* C6: with one argument it is the only recipe reference and the target is
\* github.name, the run failing at 'determining target' with no command
\* issued and no prompt shown when there is no github.name; with two or more
\* arguments the last is the target and the others, in order, are the recipe
\* references; one recipe with github.name widgets and github.owner acme
\* (no path widgets exists when a run starts) resolves to owner acme,
\* repoName widgets, Remote.
C6_ArgumentSplit ==
  /\ (Len(args) = 1 /\ pc # "start") => recipeRefs = args
  /\ (Len(args) = 1 /\ recipe # Null /\ pc # "target") =>
       IF Get2(recipe, W("github"), W("name")) # Null
         THEN target = Get2(recipe, W("github"), W("name"))
         ELSE /\ exitCode = 1
              /\ reported = "determining target"
              /\ calls = <<>>
              /\ prompts = <<>>
  /\ (Len(args) >= 2 /\ pc # "start") =>
       /\ recipeRefs = SubSeq(args, 1, Len(args) - 1)
       /\ target = Str(args[Len(args)])
  /\ (/\ Len(args) = 1
      /\ repoName # Null
      /\ Get2(recipe, W("github"), W("name")) = Str(W("widgets"))
      /\ Get2(recipe, W("github"), W("owner")) = Str(W("acme"))) =>
       /\ owner = Str(W("acme"))
       /\ repoName = Str(W("widgets"))
       /\ ~isLocal

C6_Witness ==
  /\ args = <<W("full")>>
  /\ pc = "repocreate"
  /\ owner = Str(W("acme"))
  /\ repoName = Str(W("widgets"))
  /\ ~isLocal

\* The first separator of a string that holds one.
FirstSlash(t) == CHOOSE i \in 1..Len(t) : t[i] = SLASH /\ \A k \in 1..(i - 1) : t[k] # SLASH

\* C7 (as stated): in Remote mode, owner is the part of the target before
\* the separator and repoName the part after it, trimmed; without a
\* separator owner is github.owner and repoName the trimmed target; and
\* repository creation, clone and protection are addressed to them.
C7_OwnerOverride ==
  (repoName # Null /\ ~isLocal) =>
    /\ IF includes(target.s, SLASH)
         THEN /\ owner = Str(SubSeq(target.s, 1, FirstSlash(target.s) - 1))
              /\ repoName =
                   Str(trim(SubSeq(target.s, FirstSlash(target.s) + 1, Len(target.s))))
         ELSE /\ owner = Get2(recipe, W("github"), W("owner"))
              /\ repoName = Str(trim(target.s))
    /\ \A i \in 1..Len(calls) :
         calls[i].cmd \in {"gh repo create", "git clone", "gh api protection"} =>
           calls[i].a = owner.s \o <<SLASH>> \o repoName.s

\* C8: when the loaded configuration lacks github.owner or
\* github.visibility, the run has failed at 'determining target' as soon as
\* it has left that stage, and then no command was issued, no prompt was
\* shown, the working directory is the one the run started in, and neither
\* the host nor the .env file was touched.
C8_ConfigValidatedFirst ==
  (/\ recipe # Null
   /\ pc # "target"
   /\ \/ Get2(recipe, W("github"), W("owner")) = Null
      \/ Get2(recipe, W("github"), W("visibility")) = Null) =>
    /\ exitCode = 1
    /\ reported = "determining target"
    /\ calls = <<>>
    /\ prompts = <<>>
    /\ cwd = Root
    /\ repos = {}
    /\ envFile = <<>>

C8_Witness ==
  /\ recipe # Null
  /\ Get2(recipe, W("github"), W("owner")) # Null
  /\ Get2(recipe, W("github"), W("visibility")) = Null
  /\ Len(args) >= 2
  /\ pc = "exited"
  /\ reported = "determining target"
  /\ calls = <<>>

\* The required-approval count the recipe gives a branch: its entry in
\* github.protection.approvals, 0 without an entry or without the mapping.
ExpectedApprovals(b) ==
  LET ap == Get2(Get(recipe, W("github")), W("protection"), W("approvals"))
  IN IF ap.t = "map" /\ b \in DOMAIN ap.m THEN ap.m[b].n ELSE 0

\* The protection stage lies behind the run.
ProtectionPassed ==
  \/ pc \in {"projen", "npx", "synthcommit", "synthpush", "complete"}
  \/ pc = "exited" /\ (exitCode = 0 \/ reported = "running projen synthesis")

\* C9: with github.protection configured the protection calls are, in this
\* order, one for the integration branch and one for the default branch,
\* each with the branch's approvals entry or 0; only the last call issued can
\* have failed, so a failure for the first branch leaves the second without
\* a call; once the stage is passed both calls were issued.  Without
\* github.protection no protection call is issued and the run does not fail
\* in the protection stage.
C9_BranchProtection ==
  recipe # Null =>
    LET P == CallsOf({"gh api protection"})
        br == Get2(recipe, W("github"), W("branches"))
        names == <<Get(br, W("integration")).s, Get(br, W("default")).s>>
    IN IF Get2(recipe, W("github"), W("protection")) = Null
         THEN P = <<>> /\ reported # "applying branch protection"
         ELSE /\ Len(P) <= 2
              /\ \A i \in 1..Len(P) :
                   /\ P[i].b = names[i]
                   /\ P[i].n = ExpectedApprovals(names[i])
                   /\ i < Len(P) => P[i].ok
              /\ ProtectionPassed => (Len(P) = 2 /\ P[2].ok)

C9_Witness ==
  LET P == CallsOf({"gh api protection"})
  IN /\ Len(P) = 2
     /\ P[1].b = W("dev") /\ P[1].n = 1 /\ P[1].ok
     /\ P[2].b = W("main") /\ P[2].n = 0 /\ P[2].ok
     /\ pc = "projen"

\* getSecret is about to be called for the secret at index si.
GetSecretCalled == pc = "secrets" /\ secrets.t = "list" /\ si <= Len(secrets.l)

\* C10 (as stated): when the environment variable is set at the call of
\* getSecret, the call shows no prompt, leaves process.env and the .env
\* file as they are and goes on to use the value.
C10_SetNeverPrompts ==
  [][(GetSecretCalled /\ secretEnvVar \in DOMAIN env) =>
       (pc' = "secretset" /\ UNCHANGED <<prompts, env, envFile>>)]_vars

\* C10 (amended): when the environment variable is set to a non-empty value
\* at the call of getSecret, the call shows no prompt and leaves process.env
\* and the .env file as they are; and the value getSecret returns, which is
\* passed to `gh secret set`, is the value process.env holds, which that
\* command leaves unchanged, so that a second call returns the same.
C10_EnvPassthrough ==
  /\ [][(GetSecretCalled /\ secretEnvVar \in DOMAIN env /\ Len(env[secretEnvVar]) > 0) =>
         (pc' = "secretset" /\ UNCHANGED <<prompts, env, envFile>>)]_vars
  /\ [][pc = "secretset" =>
         /\ Len(calls') = Len(calls) + 1
         /\ calls'[Len(calls')].cmd = "gh secret set"
         /\ calls'[Len(calls')].b = env[secretEnvVar]
         /\ UNCHANGED <<prompts, env, envFile>>]_vars

C10_Witness ==
  LET S == CallsOf({"gh secret set"})
  IN /\ Len(S) = 2
     /\ S[1].b = W("v") /\ S[2].b = W("v")
     /\ env = (W("E1") :> W("v"))
     /\ prompts = <<>>
     /\ envFile = <<>>

\* The extensions of the claim, in its order.
ClaimExts == <<<<>>, <<DOT, "yaml">>, <<DOT, "yml">>, <<DOT, "json">>, <<DOT, "txt">>>>

\* p is the file the claim resolves the reference to: the reference itself,
\* relative to the directory the run starts in, if that is a regular file;
\* else the first of the recipe directory's candidates that is one.
IsResolution(ref, p) ==
  \/ p = resolve(Root, ref) /\ p \in DOMAIN Files
  \/ /\ resolve(Root, ref) \notin DOMAIN Files
     /\ \E i \in 1..Len(ClaimExts) :
          /\ p = <<SLASH, "pkg", SLASH, "recipes", SLASH>> \o ref \o ClaimExts[i]
          /\ p \in DOMAIN Files
          /\ \A j \in 1..(i - 1) :
               <<SLASH, "pkg", SLASH, "recipes", SLASH>> \o ref \o ClaimExts[j]
                 \notin DOMAIN Files

Resolvable(ref) == \E p \in DOMAIN Files : IsResolution(ref, p)

\* The loading stage is just over: main is about to determine the target,
\* or loading has failed.
LoadingOver == pc = "target" \/ (pc = "exited" /\ reported = "loading recipes")

\* C11: when the loading stage is over, either every reference resolves and
\* the files read are, reference by reference, the file of the working
\* directory the reference names, or else the first candidate of the recipe
\* directory in the order '', .yaml, .yml, .json, .txt, and the
\* configuration is their fold; or the run has failed at 'loading recipes'
\* having read the files of the references before the first unresolvable
\* one and no more, with no command issued and no prompt shown.
C11_ResolutionOrder ==
  LoadingOver =>
    LET r == loadRecipes(recipeRefs, Root)
        bad == {k \in 1..Len(recipeRefs) : ~Resolvable(recipeRefs[k])}
    IN IF bad = {}
         THEN /\ reported # "loading recipes"
              /\ recipe = r.v
              /\ Len(r.read) = Len(recipeRefs)
              /\ \A k \in 1..Len(recipeRefs) : IsResolution(recipeRefs[k], r.read[k])
         ELSE LET first == CHOOSE k \in bad : \A j \in bad : k <= j
              IN /\ pc = "exited"
                 /\ exitCode = 1
                 /\ reported = "loading recipes"
                 /\ recipe = Null
                 /\ calls = <<>>
                 /\ prompts = <<>>
                 /\ Len(r.read) = first - 1
                 /\ \A k \in 1..(first - 1) : IsResolution(recipeRefs[k], r.read[k])

\* novis was read from the working directory although the recipe directory
\* has novis.json, and bare from bare.yml, the only bare.* there.
C11_Witness ==
  /\ pc = "target"
  /\ recipeRefs = <<W("novis"), W("bare")>>
  /\ loadRecipes(recipeRefs, Root).read =
       <<<<SLASH, "work", SLASH, "novis">>,
         <<SLASH, "pkg", SLASH, "recipes", SLASH, "bare", DOT, "yml">>>>
  /\ recipe = deepmerge(NoVisRecipe, BareRecipe)

\* C12 (as stated): when the integration-branch stage runs in a repository
\* without a commit, each command of the stage can succeed: the creation of
\* the branch and, in Remote mode, its push.
C12_EmptyRepositorySucceeds ==
  (stage = "creating integration branch" /\ cwd \notin commits) =>
    /\ pc = "checkout" => ENABLED Checkout(TRUE)
    /\ pc = "devpush" => ENABLED DevPush(TRUE)

\* The run has issued a successful command cmd with first argument a.
Succeeded(cmd, a) ==
  \E i \in 1..Len(calls) : calls[i].cmd = cmd /\ calls[i].a = a /\ calls[i].ok

\* The run completed successfully in Remote mode.
RemoteSuccess == exitCode = 0 /\ ~isLocal

AbsoluteForm(t) ==
  IF t = <<DOT>> THEN <<SLASH, "work">>
  ELSE IF Len(t) >= 2 /\ SubSeq(t, 1, 2) = <<DOT, SLASH>>
    THEN <<SLASH, "work", SLASH>> \o SubSeq(t, 3, Len(t))
  ELSE <<SLASH, "work", SLASH>> \o t

\* The version-control metadata of the directory a Local target names.
TargetGit == AbsoluteForm(target.s) \o <<SLASH, DOT, "git">>

\* C14: in Local mode the create-or-initialize stage goes on to `git init`
\* if and only if the target directory holds no .git when the stage runs,
\* and issues no command of its own otherwise; `git init` is issued there
\* and nowhere else, once, and leaves a .git behind when it succeeds; and in
\* a later run of the command against a directory that holds a .git the
\* stage issues no command and does not fail.
C14_LocalInitIdempotent ==
  /\ [][(pc = "create" /\ isLocal' /\ pc' # "exited") =>
         /\ calls' = calls
         /\ pc' = IF TargetGit \in dirs THEN "seed" ELSE "gitinit"]_vars
  /\ [][pc = "gitinit" =>
         /\ Len(calls') = Len(calls) + 1
         /\ calls'[Len(calls')].cmd = "git init"
         /\ calls'[Len(calls')].ok =>
              (pc' = "seed" /\ (cwd \o <<SLASH, DOT, "git">>) \in dirs')]_vars
  /\ [][(Len(calls') = Len(calls) + 1 /\ calls'[Len(calls')].cmd = "git init") =>
         (pc = "gitinit" /\ isLocal /\ (cwd \o <<SLASH, DOT, "git">>) \notin dirs)]_vars
  /\ [][(runs >= 2 /\ pc = "create" /\ isLocal' /\ TargetGit \in dirs) =>
         (pc' = "seed" /\ calls' = calls /\ exitCode' = -1 /\ reported' = "")]_vars

\* The second run against out, which had no .git before the first: the
\* stage is passed without a `git init`.
C14_Witness ==
  /\ runs = 2
  /\ isLocal
  /\ cwd = <<SLASH, "work", SLASH, "out">>
  /\ <<SLASH, "work", SLASH, "out", SLASH, DOT, "git">> \in dirs
  /\ pc = "seed"
  /\ calls # <<>>
  /\ CallsOf({"git init"}) = <<>>

\* The commands of the stages after the creation of the repository.
AfterCreate ==
  {"git clone", "cp", "git commit", "git push", "git checkout -b", "git push -u",
   "gh api protection", "npx projen"}

\* C15: when a Remote run reaches the creation of a repository whose
\* owner/name the host already holds, the creation is attempted and fails,
\* and the run ends there with status 1 and the diagnostic 'creating or
\* cloning repo'; a run that ended on a failed creation has issued no
\* clone, seeding, branch, protection or synthesis command.
C15_ExistingRepositoryFails ==
  /\ [][(pc = "repocreate" /\ (owner.s \o <<SLASH>> \o repoName.s) \in repos) =>
         /\ Len(calls') = Len(calls) + 1
         /\ calls'[Len(calls')].cmd = "gh repo create"
         /\ calls'[Len(calls')].a = owner.s \o <<SLASH>> \o repoName.s
         /\ ~calls'[Len(calls')].ok
         /\ pc' = "exited"
         /\ exitCode' = 1
         /\ reported' = "creating or cloning repo"
         /\ UNCHANGED <<repos, dirs, cwd, remote>>]_vars
  /\ [](\A i \in 1..Len(calls) :
          (calls[i].cmd = "gh repo create" /\ ~calls[i].ok) =>
            /\ i = Len(calls)
            /\ pc = "exited"
            /\ reported = "creating or cloning repo"
            /\ CallsOf(AfterCreate) = <<>>)

\* The second run for other/thing, which the first created.
C15_Witness ==
  /\ runs = 2
  /\ ~isLocal
  /\ owner = Str(W("other")) /\ repoName = Str(W("thing"))
  /\ <<"other", SLASH, "thing">> \in repos
  /\ pc = "exited"
  /\ exitCode = 1
  /\ reported = "creating or cloning repo"
  /\ calls[Len(calls)].cmd = "gh repo create"
  /\ ~calls[Len(calls)].ok

\* The stage a command belongs to (the two commits and the two plain pushes
\* are told apart by their argument).
OwnStage(c) ==
  CASE c.cmd \in {"gh auth status", "gh auth login"} -> "checking GH CLI auth"
    [] c.cmd = "gh secret set" -> "injecting secrets"
    [] c.cmd \in {"git init", "gh repo create", "git clone"} -> "creating or cloning repo"
    [] c.cmd = "cp" -> "seeding from local directory"
    [] c.cmd = "git commit" ->
         IF c.a = <<"projen">> THEN "running projen synthesis"
                               ELSE "seeding from local directory"
    [] c.cmd = "git push" ->
         IF c.a = <<>> THEN "running projen synthesis"
                       ELSE "seeding from local directory"
    [] c.cmd \in {"git checkout -b", "git push -u"} -> "creating integration branch"
    [] c.cmd = "gh api protection" -> "applying branch protection"
    [] c.cmd = "npx projen" -> "running projen synthesis"

\* The commands a run issues once at most.
OncePerRun ==
  {"gh auth status", "gh auth login", "git init", "gh repo create", "git clone", "cp",
   "git checkout -b", "git push -u", "npx projen"}

\* C16: the stage marker stays or moves to the next label of the list, one
\* label at a time; every command is issued under the marker of its own
\* stage, so the commands are issued in the order of the stages; a failed
\* command is never issued again; the commands outside the two loops are
\* issued once at most, each commit and each plain push once per stage, the
\* protection call once per branch and `gh secret set` once per entry of
\* github.secrets.
C16_StrictStageOrder ==
  /\ [][/\ StageIndex(stage') \in {StageIndex(stage), StageIndex(stage) + 1}
        /\ Len(calls') > Len(calls) =>
             (Len(calls') = Len(calls) + 1 /\ calls'[Len(calls')].stage = stage')]_vars
  /\ [](/\ \A i \in 1..Len(calls) :
             /\ calls[i].stage = OwnStage(calls[i])
             /\ StageIndex(calls[i].stage) <= StageIndex(stage)
             /\ \A j \in (i + 1)..Len(calls) :
                  /\ StageIndex(calls[i].stage) <= StageIndex(calls[j].stage)
                  /\ calls[j].cmd = calls[i].cmd =>
                       /\ calls[i].ok
                       /\ calls[i].cmd \notin OncePerRun
                       /\ calls[i].cmd \in {"git commit", "git push", "gh api protection"} =>
                            ~(calls[j].stage = calls[i].stage /\ calls[j].b = calls[i].b)
         /\ Len(CallsOf({"gh secret set"})) <=
              (IF recipe # Null /\ Get2(recipe, W("github"), W("secrets")).t = "list"
                 THEN Len(Get2(recipe, W("github"), W("secrets")).l) ELSE 0))

\* A completed run with commands of six stages.
C16_Witness ==
  /\ exitCode = 0
  /\ stage = "running projen synthesis"
  /\ {calls[i].stage : i \in 1..Len(calls)} =
       {"checking GH CLI auth", "injecting secrets", "creating or cloning repo",
        "seeding from local directory", "creating integration branch",
        "applying branch protection", "running projen synthesis"}

\* The mode is decided: the create-or-initialize stage has begun.
ModeDecided == StageIndex(stage) >= StageIndex("creating or cloning repo")

\* The command at index i was issued right after the successful command
\* before it, which was cmd in the same stage.
FollowsSuccess(i, cmd) ==
  /\ i > 1
  /\ calls[i - 1].cmd = cmd
  /\ calls[i - 1].ok
  /\ calls[i - 1].stage = calls[i].stage

\* C17: a Local run issues no push, no repository creation and no clone.
\* In a Remote run every successful seeding commit is followed by the push
\* of github.branches.default (or, without github.branches, by the failure
\* of the seeding stage), every successful creation of the integration
\* branch by its push with tracking and every successful synthesis commit
\* by a push, and there are no other pushes.  Without source.dir the
\* seeding stage issues no command and does not fail; without project the
\* synthesis stage issues no command and does not fail.
C17_PushesOnlyRemote ==
  LET main == Get2(github, W("branches"), W("default"))
      dev == Get2(github, W("branches"), W("integration"))
      last == Len(calls)
  IN /\ (ModeDecided /\ isLocal) =>
          CallsOf({"git push", "git push -u", "gh repo create", "git clone"}) = <<>>
     /\ (ModeDecided /\ ~isLocal) =>
          \A i \in 1..last :
            /\ (calls[i].cmd = "git commit" /\ calls[i].ok) =>
                 IF i < last
                   THEN /\ calls[i + 1].cmd = "git push"
                        /\ calls[i + 1].stage = calls[i].stage
                        /\ calls[i].stage = "seeding from local directory" =>
                             calls[i + 1].a = main.s
                   ELSE \/ pc \in {"seedpush", "synthpush"}
                        \/ /\ pc = "exited"
                           /\ reported = "seeding from local directory"
                           /\ Get2(recipe, W("github"), W("branches")) = Null
            /\ (calls[i].cmd = "git checkout -b" /\ calls[i].ok) =>
                 IF i < last
                   THEN calls[i + 1].cmd = "git push -u" /\ calls[i + 1].a = dev.s
                   ELSE pc = "devpush"
            /\ calls[i].cmd = "git push" => FollowsSuccess(i, "git commit")
            /\ calls[i].cmd = "git push -u" => FollowsSuccess(i, "git checkout -b")
     /\ (recipe # Null /\ Get2(recipe, W("source"), W("dir")) = Null) =>
          /\ \A i \in 1..last : calls[i].stage # "seeding from local directory"
          /\ reported # "seeding from local directory"
     /\ (recipe # Null /\ Get(recipe, W("project")) = Null) =>
          /\ \A i \in 1..last : calls[i].stage # "running projen synthesis"
          /\ reported # "running projen synthesis"
     /\ \A i \in 1..last :
          /\ calls[i].stage = "seeding from local directory" =>
               Get2(recipe, W("source"), W("dir")) # Null
          /\ calls[i].stage = "running projen synthesis" =>
               Get(recipe, W("project")) # Null

\* A completed Local run that seeded and synthesized: two commits, no push.
C17_Witness ==
  /\ exitCode = 0
  /\ isLocal
  /\ Len(CallsOf({"git commit"})) = 2
  /\ CallsOf({"cp"}) # <<>>
  /\ CallsOf({"npx projen"}) # <<>>
  /\ CallsOf({"git push", "git push -u"}) = <<>>

\* C18: once the mode is decided it is Local exactly when the target is '.'
\* or names a directory or file that exists when the run starts, whether
\* the target was given or taken from github.name; in Local mode owner is
\* github.owner, the working directory is the absolute form of the target
\* (unless the target is a regular file, which fails the stage), and
\* repoName, once assigned, is the last component of that path, as it is as
\* soon as the stage is passed.
C18_ModeSelection ==
  ModeDecided =>
    LET abs == AbsoluteForm(target.s)
    IN /\ isLocal <=> (target.s = <<DOT>> \/ abs \in InitialDirs \/ abs \in DOMAIN Files)
       /\ isLocal =>
            /\ owner = Get2(recipe, W("github"), W("owner"))
            /\ IF abs \in DOMAIN Files
                 THEN /\ pc = "exited"
                      /\ reported = "creating or cloning repo"
                      /\ calls = CallsOf({"gh auth status", "gh auth login", "gh secret set"})
                 ELSE /\ cwd = abs
                      /\ repoName \in {Null, Str(<<abs[Len(abs)]>>)}
                      /\ stage # "creating or cloning repo" => repoName # Null

\* A Local run against ./repo: the target holds the separator, yet the
\* owner is the configured one and repoName the last component.
C18_Witness ==
  /\ isLocal
  /\ target = Str(<<DOT, SLASH, "repo">>)
  /\ cwd = <<SLASH, "work", SLASH, "repo">>
  /\ owner = Str(W("acme"))
  /\ repoName = Str(W("repo"))
  /\ pc = "complete"

\* The prompts of a kind shown for a variable.
PromptsFor(kind, name) ==
  {i \in 1..Len(prompts) : prompts[i].kind = kind /\ prompts[i].name = name}

\* C19: the password prompt never ends the run: an empty value leaves the
\* question open and process.env as it is, any other value is stored in
\* process.env and followed by the confirmation.  The confirmation either
\* appends nothing or appends to .env of the working directory, once, a
\* newline and NAME=value with the newlines of the value removed; getSecret
\* then returns: the value passed to `gh secret set` is the non-empty value
\* process.env holds.  In one run a variable is asked for once at most and
\* confirmed once at most, and .env gets one line at most for it.
C19_PromptPath ==
  /\ [][pc = "password" =>
         /\ exitCode' = -1
         /\ \/ pc' = "password" /\ UNCHANGED <<env, prompts, envFile, calls>>
            \/ /\ pc' = "confirm"
               /\ secretEnvVar \in DOMAIN env'
               /\ env'[secretEnvVar] # <<>>
               /\ prompts' = Append(prompts, [kind |-> "confirm", name |-> secretEnvVar])
               /\ UNCHANGED <<envFile, calls>>]_vars
  /\ [][pc = "confirm" =>
         /\ pc' = "secretset"
         /\ exitCode' = -1
         /\ UNCHANGED <<env, prompts, calls>>
         /\ \/ envFile' = envFile
            \/ /\ Len(envFile') = Len(envFile) + 1
               /\ SubSeq(envFile', 1, Len(envFile)) = envFile
               /\ envFile'[Len(envFile')].path = <<SLASH, "work", SLASH, DOT, "env">>
               /\ envFile'[Len(envFile')].text =
                    <<NL>> \o secretEnvVar \o <<"=">> \o
                    SelectSeq(env[secretEnvVar], LAMBDA c : c # NL)]_vars
  /\ [][(pc = "secretset" /\ PromptsFor("password", secretEnvVar) # {}) =>
         /\ Len(calls') = Len(calls) + 1
         /\ calls'[Len(calls')].cmd = "gh secret set"
         /\ calls'[Len(calls')].b = env[secretEnvVar]
         /\ env[secretEnvVar] # <<>>
         /\ UNCHANGED <<env, prompts, envFile>>]_vars
  /\ [](\A i \in 1..Len(prompts) :
          /\ Cardinality(PromptsFor("password", prompts[i].name)) = 1
          /\ Cardinality(PromptsFor("confirm", prompts[i].name)) <= 1
          /\ Cardinality({k \in 1..Len(envFile) : envFile[k].name = prompts[i].name})
               <= Cardinality(PromptsFor("confirm", prompts[i].name)))
  /\ [](Len(envFile) <= Len(prompts))

\* E1 was not set: after one refused empty input the value "p\nq" was
\* entered and saved as E1=pq, and both secrets were set from it with one
\* password prompt and one confirmation.
C19_Witness ==
  /\ env0 = <<>>
  /\ rejects = 1
  /\ env = (W("E1") :> <<"p", NL, "q">>)
  /\ prompts = <<[kind |-> "password", name |-> W("E1")],
                 [kind |-> "confirm", name |-> W("E1")]>>
  /\ Len(envFile) = 1
  /\ envFile[1].text = <<NL, "E1", "=", "p", "q">>
  /\ Len(CallsOf({"gh secret set"})) = 2
  /\ \A i \in 1..2 : CallsOf({"gh secret set"})[i].b = <<"p", NL, "q">>

\* C20: in a Local run every protection call is addressed to github.owner
\* and the last component of the working directory; with github.protection
\* configured, once the protection stage is passed the host was called for
\* the integration branch and for the default branch; and the run has
\* created no repository and pushed nothing.
C20_ProtectionInLocalMode ==
  (ModeDecided /\ isLocal) =>
    LET P == CallsOf({"gh api protection"})
        br == Get2(recipe, W("github"), W("branches"))
        address == Get2(recipe, W("github"), W("owner")).s \o <<SLASH, cwd[Len(cwd)]>>
    IN /\ \A i \in 1..Len(P) : P[i].a = address /\ P[i].cwd = cwd
       /\ (Get2(recipe, W("github"), W("protection")) # Null /\ ProtectionPassed) =>
            /\ Len(P) = 2
            /\ P[1].b = Get(br, W("integration")).s
            /\ P[2].b = Get(br, W("default")).s
       /\ CallsOf({"gh repo create", "git clone", "git push", "git push -u"}) = <<>>
       /\ repos = {}
       /\ remote = {}

\* A Local run against out with protection configured: acme/out was called
\* for dev and for main, and the host holds no repository.
C20_Witness ==
  /\ isLocal
  /\ cwd = <<SLASH, "work", SLASH, "out">>
  /\ pc = "projen"
  /\ Len(CallsOf({"gh api protection"})) = 2
  /\ \A i \in 1..2 : CallsOf({"gh api protection"})[i].a = <<"acme", SLASH, "out">>
  /\ CallsOf({"gh api protection"})[1].b = W("dev")
  /\ CallsOf({"gh api protection"})[2].b = W("main")
  /\ repos = {}

\* The commands of the create-or-initialize stage.
CreateCommands == {"git init", "gh repo create", "git clone"}

\* C21: a `gh secret set` that is the newest command was issued from the
\* directory the run was started in and no command of the
\* create-or-initialize stage has been issued before it (the list of calls
\* only grows, so this orders every secret command before every create
\* command); as long as the run is in the secret stage the working
\* directory is unchanged and the host and the disk hold nothing of this
\* run; when `gh repo create` has just
\* been issued, every entry of github.secrets has been set; and a run that
\* failed in the secret stage has created no repository, no directory and
\* no clone.
C21_SecretsBeforeRepository ==
  /\ (calls # <<>> /\ calls[Len(calls)].cmd = "gh secret set") =>
       /\ calls[Len(calls)].cwd = <<SLASH, "work">>
       /\ calls[Len(calls)].stage = "injecting secrets"
       /\ CallsOf(CreateCommands) = <<>>
  /\ stage = "injecting secrets" =>
       /\ cwd = <<SLASH, "work">>
       /\ repos = {}
       /\ remote = {}
       /\ dirs = InitialDirs
  /\ (calls # <<>> /\ calls[Len(calls)].cmd = "gh repo create") =>
       /\ calls[Len(calls)].cwd = <<SLASH, "work">>
       /\ secrets.t = "list" =>
            Len(SelectSeq(calls, LAMBDA c : c.cmd = "gh secret set" /\ c.ok)) =
              Len(secrets.l)
  /\ reported = "injecting secrets" =>
       /\ repos = {}
       /\ dirs = InitialDirs
       /\ cwd = <<SLASH, "work">>
       /\ CallsOf(CreateCommands) = <<>>

\* A Remote run whose two secrets were set from the starting directory
\* before the repository was created.
C21_Witness ==
  /\ ~isLocal
  /\ pc = "clone"
  /\ repos # {}
  /\ Len(CallsOf({"gh secret set"})) = 2
  /\ calls[Len(calls)].cmd = "gh repo create"
  /\ calls[Len(calls) - 1].cmd = "gh secret set"
  /\ calls[Len(calls) - 1].cwd = <<SLASH, "work">>

\* The loaded configuration has github.owner and github.visibility and no
\* github.branches.
NoBranches ==
  /\ recipe.t = "map"
  /\ branches.t = "null"
  /\ Truthy(Get(github, W("owner")))
  /\ Truthy(Get(github, W("visibility")))

\* The stages after the create-or-initialize stage.
LateStages ==
  {"seeding from local directory", "creating integration branch",
   "applying branch protection", "running projen synthesis"}

\* The run ended with an error that no external command raised.
ThrownByMain == pc = "exited" /\ exitCode = 1 /\ (calls = <<>> \/ calls[Len(calls)].ok)

\* C22: a configuration with github.owner and github.visibility and without
\* github.branches is not rejected by the determining-target stage (that
\* stage fails only for a missing name); the run never completes, never
\* goes beyond the creating-integration-branch stage and never issues a
\* push or a checkout as its newest command; when it is main itself
\* that throws after the create-or-initialize stage, it is either in the
\* seeding stage, in Remote mode with source.dir, right after a successful
\* copy and commit, or in the creating-integration-branch stage before any
\* command of it, in Local mode or without source.dir; and by then the
\* remote repository exists or the local directory is a repository.
C22_BranchesNotValidated ==
  NoBranches =>
    /\ reported = "determining target" =>
         (Len(args) = 1 /\ ~Truthy(Get(github, W("name"))))
    /\ exitCode # 0
    /\ stage \notin {"applying branch protection", "running projen synthesis"}
    /\ calls # <<>> =>
         calls[Len(calls)].cmd \notin {"git push", "git checkout -b", "git push -u"}
    /\ (ThrownByMain /\ reported \in LateStages) =>
         /\ IF isLocal
              THEN (cwd \o <<SLASH, DOT, "git">>) \in dirs
              ELSE /\ fullName(owner, repoName) \in repos
                   /\ Succeeded("gh repo create", fullName(owner, repoName))
         /\ reported = "seeding from local directory" <=>
              (~isLocal /\ Truthy(sourceDir))
         /\ reported = "seeding from local directory" =>
              /\ Len(calls) >= 2
              /\ calls[Len(calls)].cmd = "git commit"
              /\ calls[Len(calls) - 1].cmd = "cp"
              /\ calls[Len(calls) - 1].ok
         /\ reported = "creating integration branch" =>
              CallsOf({"git checkout -b"}) = <<>>

\* A Remote run without github.branches that created the repository, copied
\* and committed the seed, and failed in the seeding stage.
C22_Witness ==
  /\ NoBranches
  /\ ~isLocal
  /\ ThrownByMain
  /\ reported = "seeding from local directory"
  /\ calls[Len(calls)].cmd = "git commit"
  /\ fullName(owner, repoName) \in repos
====
